---- MODULE Spec2Model ----
(***************************************************************************)
(* The callable-value subsystem of boa (builtins/function/mod.rs):         *)
(* Function.prototype.call / apply / bind, make_builtin_fn,                *)
(* set_function_name and BoundFunction, over a heap of objects.            *)
(***************************************************************************)
EXTENDS Integers, Sequences, FiniteSets, TLC

VARIABLES
    heap,   \* the object heap: heap[id] is the object with identity id
    last,   \* the operation that ran last: its inputs, outcome and effects
    cells,  \* the capture cells: cells[c] is a GcCell with its payload and borrow flags
    handles, \* the Captures values made so far: handles[h] names its cell
    guards  \* the live borrows: each view of a cell that has not been dropped

\* the capture cells with their handles and borrows
captures == <<cells, handles, guards>>
vars == <<heap, last, cells, handles, guards>>

\* no closure has captured anything
NoCaptures == cells = <<>> /\ handles = <<>> /\ guards = {}

---------------------------------------------------------------------------
(* Bounds of the model *)

\* longest argument list handed to call / apply / bind
MaxArgs == 2
\* number of objects the heap may hold
MaxObjs == 4
\* largest declared length handed to make_builtin_fn
MaxLen == 1
\* width in bits of the signed integer standing for i64
IntBits == 4
\* number of capture cells, of handles to them and of borrows live at once
MaxCells == 2
MaxHandles == 3
MaxBorrows == 2

MinInt == -(2 ^ (IntBits - 1))
MaxInt == (2 ^ (IntBits - 1)) - 1

---------------------------------------------------------------------------
(* JsValue: one record shape for every value.                              *)
(*   t  the type tag, n  a numeric payload, s  a text payload,             *)
(*   a  the indexed elements of an array-like object                       *)

Undefined == [t |-> "undefined", n |-> 0, s |-> "", a |-> <<>>]
Null == [t |-> "null", n |-> 0, s |-> "", a |-> <<>>]
\* a finite number, held in halves: Num(5) is 2.5
Num(h) == [t |-> "number", n |-> h, s |-> "fin", a |-> <<>>]
NaN == [t |-> "number", n |-> 0, s |-> "nan", a |-> <<>>]
PosInf == [t |-> "number", n |-> 0, s |-> "+inf", a |-> <<>>]
NegInf == [t |-> "number", n |-> 0, s |-> "-inf", a |-> <<>>]
StrV(s) == [t |-> "string", n |-> 0, s |-> s, a |-> <<>>]
ObjV(id) == [t |-> "object", n |-> id, s |-> "", a |-> <<>>]
\* an array-like object outside the heap: `length` len, elements elems;
\* bad = 1 when reading it throws
ArrayLike(len, elems, bad) == [t |-> "arraylike", n |-> len, s |-> IF bad THEN "bad" ELSE "", a |-> elems]
TypeError(msg) == [t |-> "TypeError", n |-> 0, s |-> msg, a |-> <<>>]

\* JsResult<JsValue>, plus the panic a Rust build may raise
Ok(v) == [kind |-> "ok", v |-> v]
Throw(v) == [kind |-> "throw", v |-> v]
Panic == [kind |-> "panic", v |-> Undefined]

\* JsValue::from(i64) / JsValue::from(usize) / JsValue::new(0)
IntToValue(i) == Num(2 * i)

\* JsValue::is_number
IsNumber(v) == v.t = "number"
\* a test for undefined alone
IsUndefinedOnly(v) == v.t = "undefined"

\* JsValue::is_null_or_undefined
IsNullOrUndefined(v) == v.t \in {"null", "undefined"}
\* JsValue::as_string
IsString(v) == v.t = "string"

\* args.get_or_undefined(i), i counted from 0
GetOrUndefined(args, i) == IF i + 1 <= Len(args) THEN args[i + 1] ELSE Undefined
\* the whole slice, receiver included
AllArgs(args) == args

\* args.get(1..).unwrap_or(&[])
RestArgs(args) == IF Len(args) >= 1 THEN SubSeq(args, 2, Len(args)) ELSE <<>>

---------------------------------------------------------------------------
(* Property descriptors and objects *)

Desc(v, w, e, c) == [value |-> v, throws |-> FALSE, writable |-> w, enumerable |-> e, configurable |-> c]
\* an accessor property whose getter throws v
ThrowingGetter(v) == [value |-> v, throws |-> TRUE, writable |-> FALSE, enumerable |-> FALSE, configurable |-> TRUE]

NoProps == [k \in {} |-> Desc(Undefined, FALSE, FALSE, FALSE)]

\* JsObject::insert_property / a successful define_property_or_throw
InsertProperty(props, key, desc) == [k \in (DOMAIN props) \cup {key} |-> IF k = key THEN desc ELSE props[k]]

\* JsObject::from_proto_and_data
\*   kind: "native" | "closure" | "ordinary" | "bound" | "plain"
NewObject(proto, kind, constructor) ==
    [kind |-> kind, proto |-> proto, props |-> NoProps, constructor |-> constructor,
     target_function |-> 0, this |-> Undefined, args |-> <<>>]

\* JsValue::as_callable: the object behind v when it has a [[Call]] slot
IsCallable(h, v) == v.t = "object" /\ v.n \in 1..Len(h) /\ h[v.n].kind # "plain"

\* a test that also finds the key on the prototype
HasProperty(h, id, key) ==
    key \in DOMAIN h[id].props \/ (h[id].proto # 0 /\ key \in DOMAIN h[h[id].proto].props)

\* JsObject::has_own_property
HasOwnProperty(h, id, key) == key \in DOMAIN h[id].props

\* JsObject::get: the own property, else the prototype chain's; a getter may throw
RECURSIVE Get(_, _, _)
Get(h, id, key) ==
    IF id = 0 THEN Ok(Undefined)
    ELSE IF key \in DOMAIN h[id].props
         THEN LET d == h[id].props[key]
              IN IF d.throws THEN Throw(d.value) ELSE Ok(d.value)
         ELSE Get(h, h[id].proto, key)

---------------------------------------------------------------------------
(* Numbers: ToIntegerOrInfinity and the i64 arithmetic of bind *)

\* IntegerOrInfinity
Integer(i) == [k |-> "int", i |-> i]
PositiveInfinity == [k |-> "+inf", i |-> 0]
NegativeInfinity == [k |-> "-inf", i |-> 0]

\* truncation toward zero of a number held in halves
Truncate(h) == IF h >= 0 THEN h \div 2 ELSE -((-h) \div 2)

\* the float-to-i64 cast: values outside the integer's range go to its ends
Saturate(i) == IF i < MinInt THEN MinInt ELSE IF i > MaxInt THEN MaxInt ELSE i

\* JsValue::to_integer_or_infinity on a number
ToIntegerOrInfinity(v) ==
    IF v.s = "nan" THEN Integer(0)
    ELSE IF v.s = "+inf" THEN PositiveInfinity
    ELSE IF v.s = "-inf" THEN NegativeInfinity
    ELSE Integer(Saturate(Truncate(v.n)))

\* i64 wrap-around
Wrap(x) == ((x - MinInt) % (2 ^ IntBits)) + MinInt

\* i64::max
Max(a, b) == IF a >= b THEN a ELSE b

\* bind, steps 4-6: the wrapper's length from the target's own `length` and
\* the number of bound arguments. `checked` is the build's overflow-checks
\* setting: the subtraction panics on overflow when set and wraps when not.
BoundLength(h, target, arg_count, checked) ==
    IF ~HasOwnProperty(h, target, "length") THEN Ok(IntToValue(0))
    ELSE LET got == Get(h, target, "length")
         IN IF got.kind # "ok" THEN got
            ELSE IF ~IsNumber(got.v) THEN Ok(IntToValue(0))
            ELSE LET ii == ToIntegerOrInfinity(got.v)
                 IN IF ii.k = "+inf" THEN Ok(PosInf)
                    ELSE IF ii.k = "-inf" THEN Ok(IntToValue(0))
                    ELSE IF checked /\ (ii.i - arg_count < MinInt \/ ii.i - arg_count > MaxInt)
                         THEN Panic
                         ELSE Ok(IntToValue(Max(Wrap(ii.i - arg_count), 0)))

---------------------------------------------------------------------------
(* Property keys and SetFunctionName *)

Digit(d) ==
    CASE d = 0 -> "0" [] d = 1 -> "1" [] d = 2 -> "2" [] d = 3 -> "3" [] d = 4 -> "4"
      [] d = 5 -> "5" [] d = 6 -> "6" [] d = 7 -> "7" [] d = 8 -> "8" [] d = 9 -> "9"

\* format!("{}", index) of an unsigned integer
RECURSIVE ToDecimal(_)
ToDecimal(n) == IF n < 10 THEN Digit(n) ELSE ToDecimal(n \div 10) \o Digit(n % 10)

\* largest index the model's keys use
MaxIndex == 12

\* PropertyKey
SymbolKey(has_desc, d) == [kind |-> "Symbol", s |-> d, n |-> 0, described |-> has_desc]
StringKey(s) == [kind |-> "String", s |-> s, n |-> 0, described |-> FALSE]
IndexKey(n) == [kind |-> "Index", s |-> "", n |-> n, described |-> FALSE]

\* PropertyKey::from(JsString): the text of an array index becomes an Index key
PropertyKeyFromString(s) ==
    IF \E n \in 0..MaxIndex : ToDecimal(n) = s
    THEN IndexKey(CHOOSE n \in 0..MaxIndex : ToDecimal(n) = s)
    ELSE StringKey(s)

\* Option<&str>
None == [some |-> FALSE, s |-> ""]
Some(s) == [some |-> TRUE, s |-> s]

\* the prefix joined to the name with nothing between them
FunctionNameUnspaced(name, prefix) ==
    LET derived ==
            IF name.kind = "Symbol"
            THEN (IF name.described THEN "[" \o name.s \o "]" ELSE "")
            ELSE IF name.kind = "String" THEN name.s
            ELSE ToDecimal(name.n)
    IN IF prefix.some THEN prefix.s \o derived ELSE derived

\* set_function_name, steps 2-5: the name installed for a key and a prefix
FunctionName(name, prefix) ==
    LET derived ==
            IF name.kind = "Symbol"
            THEN (IF name.described THEN "[" \o name.s \o "]" ELSE "")
            ELSE IF name.kind = "String" THEN name.s
            ELSE ToDecimal(name.n)
    IN IF prefix.some THEN prefix.s \o " " \o derived ELSE derived

\* JsObject::define_property_or_throw on an ordinary object: a new key is
\* added, a configurable one is replaced, anything else is refused
DefinePropertyOrThrow(props, key, desc) ==
    IF key \notin DOMAIN props \/ props[key].configurable \/ props[key] = desc
    THEN [ok |-> TRUE, props |-> InsertProperty(props, key, desc)]
    ELSE [ok |-> FALSE, props |-> props]

\* set_function_name: the `name` property it defines on the function's
\* properties (ok = FALSE when the definition is refused and expect panics)
SetFunctionName(props, name, prefix) ==
    DefinePropertyOrThrow(props, "name", Desc(StrV(FunctionName(name, prefix)), FALSE, FALSE, TRUE))

---------------------------------------------------------------------------
(* Invocation *)

\* JsValue::display, as the error messages use it
Display(v) ==
    CASE v.t = "undefined" -> "undefined"
      [] v.t = "null" -> "null"
      [] v.t = "string" -> "\"" \o v.s \o "\""
      [] v.t = "number" /\ v.s = "nan" -> "NaN"
      [] v.t = "number" /\ v.s = "+inf" -> "Infinity"
      [] v.t = "number" /\ v.s = "-inf" -> "-Infinity"
      [] v.t = "number" /\ v.s = "fin" ->
            (IF v.n < 0 THEN "-" ELSE "") \o ToDecimal(Truncate(IF v.n < 0 THEN -v.n ELSE v.n))
                \o (IF v.n % 2 = 1 THEN ".5" ELSE "")
      [] OTHER -> "[object Object]"

\* JsObject::call: the invocations one call makes, outermost first, each
\* with what it returns. A bound function forwards to its target with its
\* own receiver and its stored arguments followed by the caller's, and
\* returns what the target returns; res is the outcome of the function body
\* at the end of the chain.
RECURSIVE CallLog(_, _, _, _, _)
CallLog(h, id, this, args, res) ==
    <<[callee |-> id, this |-> this, args |-> args, out |-> res]>>
        \o (IF h[id].kind = "bound"
            THEN CallLog(h, h[id].target_function, h[id].this, h[id].args \o args, res)
            ELSE <<>>)

\* JsValue::create_list_from_array_like: the elements 0 .. length-1, a
\* missing one read as undefined; a value that is no object is refused
CreateListFromArrayLike(v) ==
    IF v.t # "arraylike" THEN [kind |-> "throw", v |-> TypeError("Not an object"), list |-> <<>>]
    ELSE IF v.s = "bad" THEN [kind |-> "throw", v |-> StrV("getter"), list |-> <<>>]
    ELSE [kind |-> "ok", v |-> Undefined,
          list |-> [i \in 1..v.n |-> IF i <= Len(v.a) THEN v.a[i] ELSE Undefined]]

\* BoundFunction::create
BoundFunctionCreate(h, target_function, this, args) ==
    [NewObject(h[target_function].proto, "bound", h[target_function].constructor)
        EXCEPT !.target_function = target_function, !.this = this, !.args = args]

\* the record of an operation
Record(op, this, args, out, log, conv, alloc, obj, n) ==
    [op |-> op, this |-> this, args |-> args, out |-> out, log |-> log,
     conv |-> conv, alloc |-> alloc, obj |-> obj, n |-> n]

\* no operation is running: the last one has handed its result to its caller
NoRecord == Record("idle", Undefined, <<>>, Ok(Undefined), <<>>, 0, 0, 0, 0)

\* the message thrown as a plain string
NotAFunctionString(this) == Throw(StrV(Display(this) \o " is not a function"))

\* a TypeError that leaves the receiver out of its message
NotAFunctionUnnamed(this) == Throw(TypeError("value is not a function"))

\* the TypeError of call and apply on a receiver that is not callable
NotAFunction(this) == Throw(TypeError(Display(this) \o " is not a function"))

\* the TypeError of bind on a receiver that is not callable (the message is
\* the source's, less its backquotes)
CannotBind == Throw(TypeError("cannot bind this without a [[Call]] internal method"))

\* what an operation returns after func.call(..): the outcome of the call
Returned(log) == log[1].out

\* call: let this_arg = args.get_or_undefined(0)
CallReceiver(args) == GetOrUndefined(args, 0)

\* BuiltInFunctionObject::call; res is what the function body at the end of
\* the forwarding chain returns or throws
CallResult(h, this, args, res) ==
    IF ~IsCallable(h, this)
    THEN Record("call", this, args, NotAFunction(this), <<>>, 0, 0, 0, 0)
    ELSE LET log == CallLog(h, this.n, CallReceiver(args), RestArgs(args), res)
         IN Record("call", this, args, Returned(log), log, 0, 0, 0, 0)

\* apply: let this_arg = args.get_or_undefined(0)
ApplyReceiver(args) == GetOrUndefined(args, 0)

\* the array read from the receiver's position
ApplyArgArrayFirst(args) == GetOrUndefined(args, 0)

\* apply: let arg_array = args.get_or_undefined(1)
ApplyArgArray(args) == GetOrUndefined(args, 1)

\* BuiltInFunctionObject::apply
ApplyResult(h, this, args, res) ==
    IF ~IsCallable(h, this)
    THEN Record("apply", this, args, NotAFunction(this), <<>>, 0, 0, 0, 0)
    ELSE LET this_arg == ApplyReceiver(args)
             arg_array == ApplyArgArray(args)
         IN IF IsNullOrUndefined(arg_array)
            THEN LET log == CallLog(h, this.n, this_arg, <<>>, res)
                 IN Record("apply", this, args, Returned(log), log, 0, 0, 0, 0)
            ELSE LET arg_list == CreateListFromArrayLike(arg_array)
                 IN IF arg_list.kind # "ok"
                    THEN Record("apply", this, args, Throw(arg_list.v), <<>>, 1, 0, 0, 0)
                    ELSE LET log == CallLog(h, this.n, this_arg, arg_list.list, res)
                         IN Record("apply", this, args, Returned(log), log, 1, 0, 0, 0)

Call(this, args, res) ==
    /\ last = NoRecord
    /\ last' = CallResult(heap, this, args, res)
    /\ UNCHANGED <<heap, captures>>

Apply(this, args, res) ==
    /\ last = NoRecord
    /\ last' = ApplyResult(heap, this, args, res)
    /\ UNCHANGED <<heap, captures>>

---------------------------------------------------------------------------
(* bind *)

\* bind: let this_arg = args.get_or_undefined(0)
BoundThis(args) == GetOrUndefined(args, 0)

\* the bound arguments with the receiver left in
BoundArgsAll(args) == args

\* bind: let bound_args = args.get(1..)
BoundArgs(args) == RestArgs(args)

\* a writable `length`
LengthDescriptorWritable(l) == Desc(l, TRUE, FALSE, TRUE)

\* bind, step 7: the descriptor of the wrapper's `length`
LengthDescriptor(l) == Desc(l, FALSE, FALSE, TRUE)

\* a target name that is no string kept as its display text
TargetNameDisplayed(v) == IF IsString(v) THEN v.s ELSE Display(v)

\* bind, step 9: a target name that is no string becomes the empty string
TargetName(v) == IF IsString(v) THEN v.s ELSE ""

\* BuiltInFunctionObject::bind: the record of the operation and the heap it
\* leaves. A wrapper that is not returned is unreachable and is left out of
\* the heap.
BindResult(h, this, args, checked) ==
    IF ~IsCallable(h, this)
    THEN [heap |-> h, last |-> Record("bind", this, args, CannotBind, <<>>, 0, 0, 0, 0)]
    ELSE LET target == this.n
             bound_args == BoundArgs(args)
             arg_count == Len(bound_args)
             f == BoundFunctionCreate(h, target, BoundThis(args), bound_args)
             l == BoundLength(h, target, arg_count, checked)
             failed(out) == [heap |-> h, last |-> Record("bind", this, args, out, <<>>, 0, 1, 0, arg_count)]
         IN IF l.kind # "ok" THEN failed(l)
            ELSE LET with_length == DefinePropertyOrThrow(f.props, "length", LengthDescriptor(l.v))
                     target_name == Get(h, target, "name")
                 IN IF ~with_length.ok THEN failed(Panic)
                    ELSE IF target_name.kind # "ok" THEN failed(target_name)
                    ELSE LET named == SetFunctionName(with_length.props,
                                        PropertyKeyFromString(TargetName(target_name.v)), Some("bound"))
                         IN IF ~named.ok THEN failed(Panic)
                            ELSE [heap |-> Append(h, [f EXCEPT !.props = named.props]),
                                  last |-> Record("bind", this, args, Ok(ObjV(Len(h) + 1)),
                                                  <<>>, 0, 1, Len(h) + 1, arg_count)]

Bind(this, args, checked) ==
    /\ last = NoRecord
    /\ IsCallable(heap, this) => Len(heap) < MaxObjs
    /\ heap' = BindResult(heap, this, args, checked).heap
    /\ last' = BindResult(heap, this, args, checked).last
    /\ UNCHANGED captures

---------------------------------------------------------------------------
(* make_builtin_fn *)

FunctionPrototypeId == 1
GlobalId == 2

\* the text under which an object files a property key
KeyText(key) == IF key.kind = "Index" THEN ToDecimal(key.n) ELSE key.s

\* the attributes with enumerable set
BuiltinAttributeEnumerable(v) == Desc(v, FALSE, TRUE, TRUE)

\* make_builtin_fn: the attributes of `length` and `name`
BuiltinAttribute(v) == Desc(v, FALSE, FALSE, TRUE)

\* make_builtin_fn: the function object it creates
BuiltinFunction(name, length) ==
    [NewObject(FunctionPrototypeId, "native", FALSE)
        EXCEPT !.props = InsertProperty(
                            InsertProperty(NoProps, "length", BuiltinAttribute(IntToValue(length))),
                            "name", BuiltinAttribute(StrV(name)))]

\* make_builtin_fn: the heap with the new function registered on parent
MakeBuiltinFnResult(h, name, parent, length) ==
    LET function == Len(h) + 1
    IN [Append(h, BuiltinFunction(name, length))
            EXCEPT ![parent].props = InsertProperty(@, KeyText(PropertyKeyFromString(name)),
                                                    Desc(ObjV(function), TRUE, FALSE, TRUE))]

MakeBuiltinFn(name, parent, length) ==
    /\ last = NoRecord
    /\ Len(heap) < MaxObjs
    /\ heap' = MakeBuiltinFnResult(heap, name, parent, length)
    /\ last' = Record("make_builtin_fn", ObjV(parent), <<StrV(name)>>, Ok(Undefined),
                      <<>>, 0, 0, Len(heap) + 1, length)
    /\ UNCHANGED captures

\* the operation returns: its JsResult goes to the caller
Return ==
    /\ last # NoRecord
    /\ last' = NoRecord
    /\ UNCHANGED <<heap, captures>>

---------------------------------------------------------------------------
(* Inputs *)

ArgVals == {Undefined, StrV("a")}
ArgLists == UNION {[1..n -> ArgVals] : n \in 0..MaxArgs}

\* what a function body returns or throws
Results == {Ok(StrV("r")), Throw(StrV("e"))}

\* the receivers of call / apply / bind: every object and a primitive
Receivers == {ObjV(id) : id \in 1..Len(heap)} \cup {Undefined}

\* the argArray values of apply
ArrayLikes ==
    UNION {{ArrayLike(n, e, FALSE) : e \in {l \in ArgLists : Len(l) <= n}} : n \in 0..MaxArgs}
        \cup {ArrayLike(0, <<>>, TRUE)}
ApplyArgLists ==
    {<<>>, <<StrV("a")>>} \cup {<<StrV("a"), aa>> : aa \in ArrayLikes \cup {Null, Undefined, Num(2)}}

BuiltinNames == {"g", "7"}

---------------------------------------------------------------------------
(* Specifications *)

\* BuiltInFunctionObject::init: Function.prototype, a function named "" of length 0
FunctionPrototype(length, name) ==
    [NewObject(0, "native", FALSE)
        EXCEPT !.props = InsertProperty(
                            InsertProperty(NoProps, "length", Desc(length, FALSE, FALSE, TRUE)),
                            "name", Desc(name, FALSE, FALSE, TRUE))]

\* the realm after init and the registration of one builtin, f, of length 2
Init ==
    /\ heap = MakeBuiltinFnResult(<<FunctionPrototype(IntToValue(0), StrV("")), NewObject(0, "plain", FALSE)>>,
                                  "f", GlobalId, 2)
    /\ last = NoRecord
    /\ NoCaptures

Next ==
    \/ \E this \in Receivers, args \in ArgLists, res \in Results : Call(this, args, res)
    \/ \E this \in Receivers, args \in ApplyArgLists, res \in Results : Apply(this, args, res)
    \/ \E this \in Receivers, args \in ArgLists, checked \in BOOLEAN : Bind(this, args, checked)
    \/ \E name \in BuiltinNames, length \in 0..MaxLen : MakeBuiltinFn(name, GlobalId, length)
    \/ Return

Spec == Init /\ [][Next]_vars

---------------------------------------------------------------------------
(* bind on targets of every shape *)

\* the own `length` a target may carry
OwnLengths ==
    {Desc(v, FALSE, FALSE, TRUE) :
        v \in {Num(2), Num(5), Num(-3), Num(2 * MinInt), Num(2 * MaxInt + 4),
               NaN, PosInf, NegInf, StrV("2"), Undefined}}
        \cup {ThrowingGetter(StrV("boom"))}

\* the own `name` a target may carry
OwnNames ==
    {Desc(v, FALSE, FALSE, TRUE) : v \in {StrV("f"), StrV(""), StrV("7"), StrV("07"), Num(4), Undefined}}
        \cup {ThrowingGetter(StrV("boom"))}

\* the sets of own properties a target may have: each of `length` and `name`
\* present with one of the descriptors above, or absent
TargetProps ==
    {NoProps}
        \cup {InsertProperty(NoProps, "length", l) : l \in OwnLengths}
        \cup {InsertProperty(NoProps, "name", n) : n \in OwnNames}
        \cup {InsertProperty(InsertProperty(NoProps, "length", l), "name", n) : l \in OwnLengths, n \in OwnNames}

\* Function.prototype as init leaves it, with `length` and `name` redefined,
\* or with `name` deleted
Prototypes ==
    {FunctionPrototype(IntToValue(0), StrV("")), FunctionPrototype(IntToValue(3), StrV("p")),
     [NewObject(0, "native", FALSE) EXCEPT !.props = InsertProperty(NoProps, "length", Desc(IntToValue(0), FALSE, FALSE, TRUE))]}

\* a realm holding one ordinary function whose own properties the program
\* has deleted or redefined
InitBind ==
    /\ \E proto \in Prototypes, props \in TargetProps :
          heap = <<proto, NewObject(0, "plain", FALSE),
                   [NewObject(FunctionPrototypeId, "ordinary", TRUE) EXCEPT !.props = props]>>
    /\ last = NoRecord
    /\ NoCaptures

\* argument lists that differ in length alone
CountLists == {[i \in 1..n |-> Undefined] : n \in 0..MaxArgs}

NextBind ==
    \/ \E this \in Receivers, args \in CountLists, checked \in BOOLEAN : Bind(this, args, checked)
    \/ Return

SpecBind == InitBind /\ [][NextBind]_vars

---------------------------------------------------------------------------
(* Properties of call, apply and bound functions, under Spec *)

\* the receiver and the arguments a list (thisArg, x1, .., xn) stands for
FirstOrUndefined(args) == IF args = <<>> THEN Undefined ELSE args[1]
AfterFirst(args) == [i \in 1..(IF Len(args) < 2 THEN 0 ELSE Len(args) - 1) |-> args[i + 1]]

\* how many of the logged invocations are of object id
Invocations(id) == Cardinality({i \in DOMAIN last.log : last.log[i].callee = id})

\* C1: call, apply and bind on a receiver that is not callable fail with a
\* TypeError before anything else happens: nothing is invoked, no array-like
\* conversion is attempted and no bound function is created.
C1_NotCallableIsTypeError ==
    (last.op \in {"call", "apply", "bind"} /\ ~IsCallable(heap, last.this)) =>
        /\ last.out.kind = "throw"
        /\ last.out.v.t = "TypeError"
        /\ last.log = <<>>
        /\ last.conv = 0
        /\ last.alloc = 0
        /\ last.obj = 0

\* apply on a plain object with an array-like argArray
C1_Witness ==
    /\ last.op = "apply"
    /\ last.this = ObjV(GlobalId)
    /\ Len(last.args) = 2
    /\ last.args[2].t = "arraylike"
    /\ last.out.kind = "throw"

\* C2: call on a callable target invokes it exactly once, with receiver
\* args[0] (undefined for an empty list) and arguments args[1..] in order,
\* and returns what the target returns or throws.
C2_CallForwards ==
    (last.op = "call" /\ IsCallable(heap, last.this)) =>
        /\ Len(last.log) >= 1
        /\ Invocations(last.this.n) = 1
        /\ last.log[1].callee = last.this.n
        /\ last.log[1].this = FirstOrUndefined(last.args)
        /\ last.log[1].args = AfterFirst(last.args)
        /\ last.out = last.log[1].out
        /\ last.out = last.log[Len(last.log)].out

\* call with a receiver and an argument, the target throwing
C2_Witness ==
    /\ last.op = "call"
    /\ IsCallable(heap, last.this)
    /\ Len(last.args) = MaxArgs
    /\ last.args[1] # last.args[2]
    /\ last.out.kind = "throw"

\* C3: apply with argArray null, undefined or omitted invokes the target
\* exactly once with receiver thisArg and no arguments, and converts nothing.
C3_ApplyWithoutArray ==
    (/\ last.op = "apply"
     /\ IsCallable(heap, last.this)
     /\ (Len(last.args) < 2 \/ last.args[2] \in {Null, Undefined})) =>
        /\ Len(last.log) >= 1
        /\ Invocations(last.this.n) = 1
        /\ last.log[1] = [callee |-> last.this.n, this |-> FirstOrUndefined(last.args),
                          args |-> <<>>, out |-> last.out]
        /\ last.conv = 0

\* apply(recv, null) on a callable target
C3_Witness ==
    /\ last.op = "apply"
    /\ IsCallable(heap, last.this)
    /\ Len(last.args) = 2
    /\ last.args[2] = Null
    /\ Len(last.log) >= 1

\* C4: apply with an argArray that is neither null nor undefined converts it
\* first; a failed conversion is returned as it is and nothing is invoked; a
\* successful one is followed by exactly one invocation with receiver
\* thisArg and the converted list.
C4_ApplyConverts ==
    (/\ last.op = "apply"
     /\ IsCallable(heap, last.this)
     /\ Len(last.args) >= 2
     /\ last.args[2] \notin {Null, Undefined}) =>
        LET converted == CreateListFromArrayLike(last.args[2])
        IN /\ last.conv = 1
           /\ converted.kind # "ok" => (last.out = Throw(converted.v) /\ last.log = <<>>)
           /\ converted.kind = "ok" =>
                /\ Len(last.log) >= 1
                /\ Invocations(last.this.n) = 1
                /\ last.log[1] = [callee |-> last.this.n, this |-> last.args[1],
                                  args |-> converted.list, out |-> last.out]

\* apply whose argArray is a number: the conversion fails
C4_Witness ==
    /\ last.op = "apply"
    /\ IsCallable(heap, last.this)
    /\ Len(last.args) = 2
    /\ last.args[2] = Num(2)
    /\ last.out = Throw(TypeError("Not an object"))

\* apply whose argArray has a length beyond its stored elements
C4_WitnessConverted ==
    /\ last.op = "apply"
    /\ IsCallable(heap, last.this)
    /\ Len(last.args) = 2
    /\ last.args[2].t = "arraylike"
    /\ last.args[2].n > Len(last.args[2].a)
    /\ Len(last.args[2].a) > 0
    /\ Len(last.log) >= 1

\* C5: the wrapper bind returns stores the target, thisArg (undefined when
\* bind got no arguments) and the arguments after thisArg in order; every
\* invocation of a bound function is followed by one of its target with the
\* stored receiver and the stored arguments followed by the caller's.
C5_BoundForwards ==
    /\ (last.op = "bind" /\ last.out.kind = "ok") =>
            /\ last.out.v = ObjV(last.obj)
            /\ heap[last.obj].kind = "bound"
            /\ heap[last.obj].target_function = last.this.n
            /\ heap[last.obj].this = FirstOrUndefined(last.args)
            /\ heap[last.obj].args = AfterFirst(last.args)
    /\ \A i \in DOMAIN last.log :
            heap[last.log[i].callee].kind = "bound" =>
                /\ i + 1 \in DOMAIN last.log
                /\ last.log[i + 1].callee = heap[last.log[i].callee].target_function
                /\ last.log[i + 1].this = heap[last.log[i].callee].this
                /\ last.log[i + 1].args = heap[last.log[i].callee].args \o last.log[i].args
                /\ last.log[i + 1].out = last.log[i].out

\* a bound function holding a receiver and an argument, called with another
\* receiver and another argument
C5_Witness ==
    /\ last.op = "call"
    /\ Len(last.log) = 2
    /\ heap[last.log[1].callee].kind = "bound"
    /\ last.log[1].this # last.log[2].this
    /\ last.log[2].args = <<StrV("a"), Undefined>>

---------------------------------------------------------------------------
(* Properties of the wrapper bind returns, under SpecBind, and of *)
(* make_builtin_fn, under Spec                                    *)

\* the number of bound arguments of an argument list (thisArg, a1, .., ak)
BoundCount(args) == IF Len(args) = 0 THEN 0 ELSE Len(args) - 1

\* bind has just returned a wrapper
BindReturned == last.op = "bind" /\ last.out.kind = "ok" /\ last.obj \in 1..Len(heap)

\* the target of the bind that ran last has an own data property key
TargetHasOwn(key) ==
    /\ last.op = "bind"
    /\ IsCallable(heap, last.this)
    /\ key \in DOMAIN heap[last.this.n].props
    /\ ~heap[last.this.n].props[key].throws

\* the value of the wrapper's own property key
WrapperValue(key) == heap[last.obj].props[key].value

C6_DerivedLengthInRange ==
    (/\ TargetHasOwn("length")
     /\ heap[last.this.n].props["length"].value.t = "number"
     /\ heap[last.this.n].props["length"].value.s = "fin"
     /\ Truncate(heap[last.this.n].props["length"].value.n) <= MaxInt
     /\ Truncate(heap[last.this.n].props["length"].value.n) - BoundCount(last.args) >= MinInt) =>
        /\ last.out.kind # "panic"
        /\ BindReturned =>
              WrapperValue("length") =
                  Num(2 * Max(Truncate(heap[last.this.n].props["length"].value.n) - BoundCount(last.args), 0))

\* a target whose own length is the least integer, bound with one argument
C6_WitnessOverflow ==
    /\ TargetHasOwn("length")
    /\ heap[last.this.n].props["length"].value = Num(2 * MinInt)
    /\ BoundCount(last.args) = 1
    /\ last.out.kind = "panic"

\* C7: a target with no own `length` (an inherited one or none), with an own
\* `length` that is no number, or with -infinity gives a wrapper of length
\* 0, and one with +infinity a wrapper of length +infinity, whatever the
\* number of bound arguments.
C7_DefaultLength ==
    BindReturned =>
        LET own == heap[last.this.n].props
        IN /\ "length" \notin DOMAIN own => WrapperValue("length") = Num(0)
           /\ ("length" \in DOMAIN own /\ own["length"].value.t # "number") =>
                    WrapperValue("length") = Num(0)
           /\ ("length" \in DOMAIN own /\ own["length"].value = NegInf) =>
                    WrapperValue("length") = Num(0)
           /\ ("length" \in DOMAIN own /\ own["length"].value = PosInf) =>
                    WrapperValue("length") = PosInf

\* a target without own `length` that inherits length 3, bound with an argument
C7_Witness ==
    /\ BindReturned
    /\ "length" \notin DOMAIN heap[last.this.n].props
    /\ heap[last.this.n].proto = FunctionPrototypeId
    /\ heap[FunctionPrototypeId].props["length"].value = Num(6)
    /\ BoundCount(last.args) = 1

\* a target of length +infinity, bound with an argument
C7_WitnessInfinity ==
    /\ BindReturned
    /\ TargetHasOwn("length")
    /\ heap[last.this.n].props["length"].value = PosInf
    /\ BoundCount(last.args) = 1

C8_WitnessNamed ==
    /\ BindReturned
    /\ TargetHasOwn("name")
    /\ heap[last.this.n].props["name"].value = StrV("07")
    /\ WrapperValue("name") = StrV("bound 07")

C8_WitnessInherited ==
    /\ BindReturned
    /\ "name" \notin DOMAIN heap[last.this.n].props
    /\ WrapperValue("name") = StrV("bound p")

C8_WitnessAbsent ==
    /\ BindReturned
    /\ heap[last.this.n].kind = "ordinary"
    /\ Get(heap, last.this.n, "name") = Ok(Undefined)
    /\ WrapperValue("name") = StrV("bound ")

\* C9: the wrapper a successful bind returns has own `length` and `name`,
\* both non-writable, non-enumerable and configurable.
C9_WrapperDescriptors ==
    BindReturned =>
        \A key \in {"length", "name"} :
            /\ key \in DOMAIN heap[last.obj].props
            /\ ~heap[last.obj].props[key].throws
            /\ ~heap[last.obj].props[key].writable
            /\ ~heap[last.obj].props[key].enumerable
            /\ heap[last.obj].props[key].configurable

\* a wrapper of a target that has neither property of its own
C9_Witness ==
    /\ BindReturned
    /\ heap[last.this.n].kind = "ordinary"
    /\ heap[last.this.n].props = NoProps

\* C10: a function registered by make_builtin_fn with declared length n has
\* a `length` of value n, non-writable, non-enumerable and configurable.
C10_BuiltinLength ==
    \A n \in 0..MaxLen :
        (last.op = "make_builtin_fn" /\ last.n = n) =>
            /\ last.obj \in 1..Len(heap)
            /\ heap[last.obj].kind = "native"
            /\ "length" \in DOMAIN heap[last.obj].props
            /\ heap[last.obj].props["length"] =
                  [value |-> Num(2 * n), throws |-> FALSE, writable |-> FALSE,
                   enumerable |-> FALSE, configurable |-> TRUE]

\* a builtin registered with the largest declared length
C10_Witness ==
    /\ last.op = "make_builtin_fn"
    /\ last.n = MaxLen
    /\ last.n > 0
    /\ last.obj = Len(heap)

---------------------------------------------------------------------------
(* set_function_name on its own *)

\* set_function_name(function, name, prefix): the `name` it defines, or the
\* panic of expect when the definition is refused
SetName(function, name, prefix) ==
    /\ last = NoRecord
    /\ LET named == SetFunctionName(heap[function].props, name, prefix)
       IN /\ heap' = IF named.ok THEN [heap EXCEPT ![function].props = named.props] ELSE heap
          /\ last' = Record("set_function_name", ObjV(function), <<name, prefix>>,
                            IF named.ok THEN Ok(Undefined) ELSE Panic, <<>>, 0, 0, function, 0)
    /\ UNCHANGED captures

\* the keys and prefixes set_function_name is handed
NameKeys ==
    {SymbolKey(FALSE, ""), SymbolKey(TRUE, ""), SymbolKey(TRUE, "Symbol.iterator")}
        \cup {StringKey(s) : s \in {"", "f", "a b"}}
        \cup {IndexKey(n) : n \in 0..MaxIndex}
NamePrefixes == {None, Some("get"), Some("bound"), Some("")}

\* a new function without a `name`, and one whose `name` cannot be redefined
InitName ==
    /\ heap = <<FunctionPrototype(IntToValue(0), StrV("")),
                NewObject(FunctionPrototypeId, "ordinary", TRUE),
                [NewObject(FunctionPrototypeId, "ordinary", TRUE)
                    EXCEPT !.props = InsertProperty(NoProps, "name", Desc(StrV("fixed"), FALSE, FALSE, FALSE))]>>
    /\ last = NoRecord
    /\ NoCaptures

NextName ==
    \/ \E function \in {2, 3}, name \in NameKeys, prefix \in NamePrefixes : SetName(function, name, prefix)
    \/ Return

SpecName == InitName /\ [][NextName]_vars

\* the text of an index below 100, digit by digit
IndexText(n) == IF n < 10 THEN Digit(n) ELSE Digit(n \div 10) \o Digit(n % 10)

\* C11: set_function_name installs, for a symbol key with description d,
\* "[" d "]"; for a symbol key without description, the empty string; for a
\* string key, the string; for an index key, its decimal text; each behind
\* the prefix and one space when a prefix is given.
C11_DerivedName ==
    (last.op = "set_function_name" /\ last.out.kind = "ok") =>
        LET key == last.args[1]
            prefix == last.args[2]
            derived == CASE key.kind = "Symbol" /\ key.described -> "[" \o key.s \o "]"
                         [] key.kind = "Symbol" /\ ~key.described -> ""
                         [] key.kind = "String" -> key.s
                         [] key.kind = "Index" -> IndexText(key.n)
        IN /\ "name" \in DOMAIN heap[last.obj].props
           /\ heap[last.obj].props["name"].value =
                StrV(IF prefix.some THEN prefix.s \o " " \o derived ELSE derived)

\* a described symbol key under a prefix
C11_Witness ==
    /\ last.op = "set_function_name"
    /\ last.out.kind = "ok"
    /\ last.args[1] = SymbolKey(TRUE, "Symbol.iterator")
    /\ last.args[2] = Some("get")
    /\ heap[last.obj].props["name"].value = StrV("get [Symbol.iterator]")

\* an index key of two digits without a prefix
C11_WitnessIndex ==
    /\ last.op = "set_function_name"
    /\ last.out.kind = "ok"
    /\ last.args[1] = IndexKey(MaxIndex)
    /\ last.args[2] = None

\* the definition refused on a `name` that is not configurable
C11_WitnessRefused ==
    /\ last.op = "set_function_name"
    /\ last.out.kind = "panic"

---------------------------------------------------------------------------
(* Function.prototype.toString *)

\* JsValue::to_string on the values a `name` holds in this model
JsToString(v) ==
    CASE v.t = "string" -> v.s
      [] v.t = "number" -> Display(v)
      [] v.t = "undefined" -> "undefined"
      [] v.t = "null" -> "null"
      [] OTHER -> "[object Object]"

\* Object::as_function: the Function data of an object, absent on bound
\* function objects and on plain objects
AsFunction(h, this) ==
    IF this.t = "object" /\ this.n \in 1..Len(h) /\ h[this.n].kind \in {"native", "closure", "ordinary"}
    THEN Some(h[this.n].kind)
    ELSE None

\* a formal parameter: an identifier, or a pattern binding several
Identifier(ident) == [pattern |-> FALSE, idents |-> <<ident>>]
Pattern(idents) == [pattern |-> TRUE, idents |-> idents]

RECURSIVE Join(_, _)
\* [..].join(sep)
Join(items, sep) ==
    IF items = <<>> THEN ""
    ELSE IF Len(items) = 1 THEN items[1]
    ELSE items[1] \o sep \o Join(Tail(items), sep)

\* to_string: the formal parameters, patterns in braces, joined by commas
Arguments(params) ==
    Join([i \in 1..Len(params) |->
            IF params[i].pattern
            THEN "{" \o Join(params[i].idents, ",") \o "}"
            ELSE params[i].idents[1]], ",")

RECURSIVE StatementListToString(_)
\* the text of a statement list, one line per statement, each line ended
StatementListToString(body) ==
    IF body = <<>> THEN "" ELSE body[1] \o "\n" \o StatementListToString(Tail(body))

\* to_string: the rendering of an interpreted function
OrdinaryRendering(name, params, body) ==
    LET is_multiline == Len(body) > 1
    IN IF is_multiline
       THEN name \o "(" \o Arguments(params) \o ") {\n" \o StatementListToString(body) \o "}"
       ELSE name \o "(" \o Arguments(params) \o ") {" \o (IF body = <<>> THEN "" ELSE body[1]) \o "}"

\* the rendering of a native function
NativeRendering(name) == "function " \o name \o "() {\n  [native Code]\n}"

\* BuiltInFunctionObject::to_string; params and body are those of the
\* Function::Ordinary data when the receiver is an interpreted function
ToStringResult(h, this, params, body) ==
    LET function == AsFunction(h, this)
    IN IF ~function.some THEN Throw(TypeError("Not a function"))
       ELSE LET value == Get(h, this.n, "name")
            IN IF value.kind # "ok" THEN value
               ELSE LET name == IF IsNullOrUndefined(value.v) THEN None ELSE Some(JsToString(value.v))
                    IN IF function.s = "native" /\ name.some
                       THEN Ok(StrV(NativeRendering(name.s)))
                       ELSE IF function.s = "ordinary" /\ name.some
                       THEN Ok(StrV(OrdinaryRendering(name.s, params, body)))
                       ELSE Ok(StrV("TODO"))

FunctionToString(this, params, body) ==
    /\ last = NoRecord
    /\ last' = Record("to_string", this, <<>>, ToStringResult(heap, this, params, body), <<>>, 0, 0, 0, 0)
    /\ UNCHANGED <<heap, captures>>

\* the `name` descriptors a function may carry, 0 for none of its own
NameDescriptors ==
    {Desc(v, FALSE, FALSE, TRUE) : v \in {StrV("f"), StrV(""), StrV("a b"), IntToValue(7), Undefined, Null}}
        \cup {ThrowingGetter(StrV("e"))}

\* the formal parameters and the bodies of the interpreted functions
ParamLists == {<<>>, <<Identifier("a")>>, <<Identifier("a"), Pattern(<<"b", "c">>)>>, <<Pattern(<<>>)>>}
Bodies == {<<>>, <<"return a;">>, <<"let x = a;", "return x;">>}

\* Function.prototype, a function of each variant in turn with each `name`
\* (or none of its own), a bound function over it and a plain object
InitToString ==
    /\ \E kind \in {"native", "closure", "ordinary"}, own \in BOOLEAN, desc \in NameDescriptors :
            heap = <<FunctionPrototype(IntToValue(0), StrV("")),
                     [NewObject(FunctionPrototypeId, kind, TRUE)
                        EXCEPT !.props = IF own THEN InsertProperty(NoProps, "name", desc) ELSE NoProps],
                     [NewObject(FunctionPrototypeId, "bound", TRUE) EXCEPT !.target_function = 2],
                     NewObject(0, "plain", FALSE)>>
    /\ last = NoRecord
    /\ NoCaptures

NextToString ==
    \/ \E this \in Receivers, params \in ParamLists, body \in Bodies :
            /\ AsFunction(heap, this) = Some("ordinary") \/ (params = <<>> /\ body = <<>>)
            /\ FunctionToString(this, params, body)
    \/ Return

SpecToString == InitToString /\ [][NextToString]_vars

\* the receiver of the last toString is a function of one of the kinds and
\* its `name` resolves to a string
NameResolves(kinds) ==
    /\ last.op = "to_string"
    /\ AsFunction(heap, last.this).some
    /\ AsFunction(heap, last.this).s \in kinds
    /\ Get(heap, last.this.n, "name").kind = "ok"
    /\ IsString(Get(heap, last.this.n, "name").v)

\* C12: toString of a Native or Native-Closure function whose `name` resolves
\* to a string N returns "function N() {\n  [native code]\n}", the same for
\* both variants.
C12_NativeRendering ==
    NameResolves({"native", "closure"}) =>
        last.out = Ok(StrV("function " \o Get(heap, last.this.n, "name").v.s \o "() {\n  [native code]\n}"))

\* what the source renders: "[native Code]" for a Native function, the
\* placeholder "TODO" for a Native-Closure function
C12_AsWritten ==
    /\ NameResolves({"native"}) =>
            last.out = Ok(StrV("function " \o Get(heap, last.this.n, "name").v.s \o "() {\n  [native Code]\n}"))
    /\ NameResolves({"closure"}) => last.out = Ok(StrV("TODO"))

\* a named Native-Closure function rendered as the placeholder
C12_WitnessClosure == NameResolves({"closure"}) /\ last.this = ObjV(2) /\ last.out = Ok(StrV("TODO"))
\* a named Native function rendered with "[native Code]"
C12_WitnessNative == NameResolves({"native"}) /\ last.this = ObjV(2) /\ last.out.kind = "ok"

---------------------------------------------------------------------------
(* Captures: the capture cell of a native closure *)

\* GcCell::new: a payload nobody has borrowed
GcCell(payload) == [payload |-> payload, reading |-> 0, writing |-> FALSE]

\* GcCell::borrow: a shared view, refused while the cell is mutably borrowed
Borrow(cs, c) ==
    IF cs[c].writing
    THEN [ok |-> FALSE, cells |-> cs]
    ELSE [ok |-> TRUE, cells |-> [cs EXCEPT ![c].reading = @ + 1]]

\* GcCell::borrow_mut: the exclusive view, refused while the cell is borrowed
BorrowMut(cs, c) ==
    IF cs[c].writing \/ cs[c].reading > 0
    THEN [ok |-> FALSE, cells |-> cs]
    ELSE [ok |-> TRUE, cells |-> [cs EXCEPT ![c].writing = TRUE]]

\* a clone that allocates a cell of its own holding a copy of the payload
CloneDeep(cs, hs, h) ==
    [cells |-> Append(cs, GcCell(cs[hs[h].cell].payload)),
     handles |-> Append(hs, [cell |-> Len(cs) + 1, from |-> hs[h].from])]

\* derive(Clone) on Captures: Gc::clone, one more handle to the same cell
Clone(cs, hs, h) == [cells |-> cs, handles |-> Append(hs, hs[h])]

\* an exclusive view handed out without looking at the borrow flags
AsMutAnyUnchecked(cs, hs, h) == [ok |-> TRUE, cells |-> [cs EXCEPT ![hs[h].cell].writing = TRUE]]

\* Captures::as_mut_any
AsMutAnyResult(cs, hs, h) == BorrowMut(cs, hs[h].cell)

\* Captures::as_any
AsAnyResult(cs, hs, h) == Borrow(cs, hs[h].cell)

\* what a capture operation leaves in last: the handle it went through, the
\* guard it took or dropped, and for a borrow whether it follows at once
\* the release of a mutable view of the same cell
CaptureRecord(op, h, out, g, after_release) ==
    Record(op, Undefined, <<>>, out, IF after_release THEN <<"release">> ELSE <<>>, 0, 0, h, g)

\* the payloads a closure captures and stores
Payloads == {"a", "b"}

\* a borrow conflict has panicked: nothing runs after it
Panicked == last.out.kind = "panic"

\* Captures::new(payload): a new cell and the first handle to it
CapturesNew(payload) ==
    /\ ~Panicked
    /\ Len(cells) < MaxCells /\ Len(handles) < MaxHandles
    /\ cells' = Append(cells, GcCell(payload))
    /\ handles' = Append(handles, [cell |-> Len(cells) + 1, from |-> Len(handles) + 1])
    /\ last' = CaptureRecord("new", Len(handles) + 1, Ok(StrV(payload)), 0, FALSE)
    /\ UNCHANGED <<heap, guards>>

\* captures.clone(), as made for every invocation of the closure
CapturesClone(h) ==
    /\ ~Panicked
    /\ Len(handles) < MaxHandles
    /\ cells' = Clone(cells, handles, h).cells
    /\ handles' = Clone(cells, handles, h).handles
    /\ last' = CaptureRecord("clone", Len(handles) + 1, Ok(Undefined), 0, FALSE)
    /\ UNCHANGED <<heap, guards>>

\* the identity of the next view handed out
FreeGuard == CHOOSE id \in 1..MaxBorrows : id \notin {g.id : g \in guards}

\* a borrow through handle h: the view it returns, or the panic
Borrowing(op, h, mut, borrowed) ==
    /\ ~Panicked
    /\ Cardinality(guards) < MaxBorrows
    /\ cells' = borrowed.cells
    /\ guards' = IF borrowed.ok
                 THEN guards \cup {[id |-> FreeGuard, handle |-> h, cell |-> handles[h].cell, mut |-> mut]}
                 ELSE guards
    /\ last' = CaptureRecord(op, h, IF borrowed.ok THEN Ok(Undefined) ELSE Panic,
                             IF borrowed.ok THEN FreeGuard ELSE 0,
                             last.op = "release" /\ last.conv = handles[h].cell)
    /\ UNCHANGED <<heap, handles>>

AsAny(h) == Borrowing("as_any", h, FALSE, AsAnyResult(cells, handles, h))

AsMutAny(h) == Borrowing("as_mut_any", h, TRUE, AsMutAnyResult(cells, handles, h))

\* the closure reads the payload through a live view
ReadThrough(g) ==
    /\ ~Panicked
    /\ last' = CaptureRecord("read", g.handle, Ok(StrV(cells[g.cell].payload)), 0, FALSE)
    /\ UNCHANGED <<heap, captures>>

\* the closure stores a payload through a live mutable view
WriteThrough(g, payload) ==
    /\ ~Panicked
    /\ g.mut
    /\ cells' = [cells EXCEPT ![g.cell].payload = payload]
    /\ last' = CaptureRecord("write", g.handle, Ok(StrV(payload)), 0, FALSE)
    /\ UNCHANGED <<heap, handles, guards>>

\* the view goes out of scope: its borrow is given back
Release(g) ==
    /\ ~Panicked
    /\ guards' = guards \ {g}
    /\ cells' = IF g.mut
                THEN [cells EXCEPT ![g.cell].writing = FALSE]
                ELSE [cells EXCEPT ![g.cell].reading = @ - 1]
    /\ last' = [CaptureRecord("release", g.handle, Ok(Undefined), 0, FALSE)
                    EXCEPT !.conv = IF g.mut THEN g.cell ELSE 0]
    /\ UNCHANGED <<heap, handles>>

InitCaptures ==
    /\ heap = <<>>
    /\ last = NoRecord
    /\ NoCaptures

NextCaptures ==
    \/ \E payload \in Payloads : CapturesNew(payload)
    \/ \E h \in 1..Len(handles) : CapturesClone(h)
    \/ \E h \in 1..Len(handles) : AsAny(h)
    \/ \E h \in 1..Len(handles) : AsMutAny(h)
    \/ \E g \in guards : ReadThrough(g)
    \/ \E g \in guards, payload \in Payloads : WriteThrough(g, payload)
    \/ \E g \in guards : Release(g)

SpecCaptures == InitCaptures /\ [][NextCaptures]_vars

\* handles h and k descend from one Captures::new
SameOrigin(h, k) == handles[h].from = handles[k].from

\* C13: a clone never copies the payload: whatever was cloned and whatever
\* was stored through any handle, all handles that descend from one
\* Captures::new hold the same payload, and a read through one of them
\* returns what every other one holds.
C13_ClonesShare ==
    /\ \A h, k \in 1..Len(handles) :
            SameOrigin(h, k) => cells[handles[h].cell].payload = cells[handles[k].cell].payload
    /\ last.op \in {"read", "write"} =>
            \A k \in 1..Len(handles) :
                SameOrigin(last.obj, k) => last.out = Ok(StrV(cells[handles[k].cell].payload))

\* a payload stored through one handle shows through another handle cloned
\* from the same Captures::new, and not through a handle of another origin
C13_Witness ==
    /\ last.op = "write"
    /\ last.out = Ok(StrV("b"))
    /\ \E k \in 1..Len(handles) :
            k # last.obj /\ SameOrigin(k, last.obj) /\ cells[handles[k].cell].payload = "b"
    /\ \E k \in 1..Len(handles) : ~SameOrigin(k, last.obj) /\ cells[handles[k].cell].payload = "a"

\* a payload read through a shared view while a clone holds one as well
C13_WitnessRead ==
    /\ last.op = "read"
    /\ \E g \in guards : g.handle # last.obj /\ SameOrigin(g.handle, last.obj)

\* the live views of cell c among the guards gs
LiveOn(gs, c) == {g \in gs : g.cell = c}

\* the guards as they were before the borrow recorded in last
GuardsBefore == {g \in guards : g.id # last.n}

\* C14: a live mutable view is the only live view of its cell: as_any
\* panics while a mutable view of the cell is live, as_mut_any panics while
\* any view of it is live, through whichever handle, and either succeeds
\* when no such view is live, as after a release.
C14_ExclusiveBorrow ==
    /\ \A g, k \in guards : (g # k /\ g.cell = k.cell) => (~g.mut /\ ~k.mut)
    /\ last.op \in {"as_any", "as_mut_any"} =>
            LET c == handles[last.obj].cell
                conflict == \E g \in LiveOn(GuardsBefore, c) : g.mut \/ last.op = "as_mut_any"
            IN IF conflict
               THEN last.out = Panic /\ last.n = 0
               ELSE /\ last.out.kind = "ok"
                    /\ \E g \in guards :
                          g.id = last.n /\ g.cell = c /\ g.handle = last.obj /\ g.mut = (last.op = "as_mut_any")

\* as_any through a clone panics under a live mutable view of the same cell
C14_Witness ==
    /\ last.op = "as_any"
    /\ last.out = Panic
    /\ \E g \in guards : g.mut /\ g.cell = handles[last.obj].cell /\ g.handle # last.obj

\* as_mut_any panics under a live mutable view taken through the same handle
C14_WitnessNested ==
    /\ last.op = "as_mut_any"
    /\ last.out = Panic
    /\ \E g \in guards : g.mut /\ g.handle = last.obj

\* as_mut_any panics under a live shared view
C14_WitnessShared ==
    /\ last.op = "as_mut_any"
    /\ last.out = Panic
    /\ \E g \in guards : ~g.mut /\ g.cell = handles[last.obj].cell

\* as_mut_any succeeds once the earlier mutable view has been released
C14_WitnessReleased ==
    /\ last.op = "as_mut_any"
    /\ last.out.kind = "ok"
    /\ last.log = <<"release">>

---------------------------------------------------------------------------
(* The messages of call, apply and bind on a receiver that is not callable *)

\* part occurs somewhere in text
Contains(text, part) ==
    \E i \in 1..(Len(text) - Len(part) + 1) : SubSeq(text, i, i + Len(part) - 1) = part

\* the last operation is op, invoked on a receiver that is not callable
RefusedReceiver(ops) == last.op \in ops /\ ~IsCallable(heap, last.this)

\* C15 as stated: call, apply and bind on a receiver v that is not callable
\* each throw a TypeError whose message names the display form of v.
C15_MessageNamesReceiver ==
    RefusedReceiver({"call", "apply", "bind"}) =>
        /\ last.out.kind = "throw"
        /\ last.out.v.t = "TypeError"
        /\ Contains(last.out.v.s, Display(last.this))

\* C15, amended: call and apply on a receiver v that is not callable throw
\* a TypeError whose message is the display form of v followed by
\* " is not a function"; bind throws a TypeError with one fixed message,
\* which does not name v.
C15_CallApplyNameReceiver ==
    /\ RefusedReceiver({"call", "apply"}) =>
            /\ last.out.kind = "throw"
            /\ last.out.v.t = "TypeError"
            /\ last.out.v.s = Display(last.this) \o " is not a function"
            /\ Contains(last.out.v.s, Display(last.this))
    /\ RefusedReceiver({"bind"}) =>
            /\ last.out.kind = "throw"
            /\ last.out.v.t = "TypeError"
            /\ last.out.v.s = "cannot bind this without a [[Call]] internal method"
            /\ ~Contains(last.out.v.s, Display(last.this))

\* call refused on undefined
C15_Witness == RefusedReceiver({"call"}) /\ last.this = Undefined /\ last.out.v.s = "undefined is not a function"
\* apply refused on a plain object
C15_WitnessApply == RefusedReceiver({"apply"}) /\ last.this = ObjV(GlobalId)
\* bind refused on undefined
C15_WitnessBind == RefusedReceiver({"bind"}) /\ last.this = Undefined

====
